---- MODULE Spec2Model ----
(***************************************************************************)
(* A model of update_rom_data.py: main locates the ROM workbook, runs      *)
(* extract_rom_data over three optional sheets, writes data/rom-data.json  *)
(* through save_json and prints a summary.                                 *)
(*                                                                         *)
(* Python values are tagged records: None, int, float (a decimal num/den   *)
(* with den a power of ten) and str (a sequence of one-character strings,  *)
(* so that lower(), strip(), replace() and "in" are computed).  Cells hold *)
(* non-negative numbers; texts are drawn from a fixed list.  A Python dict *)
(* with string keys is a record, an insertion-ordered dict whose keys come *)
(* from the workbook (phases) is a sequence of [key, val] entries, a list  *)
(* is a sequence.  The fixed texts of the static sections, which no        *)
(* operation inspects, are plain strings.                                  *)
(***************************************************************************)
EXTENDS Integers, Sequences, FiniteSets, TLC

VARIABLES
    argv,       \* sys.argv[1:]: <<>> or <<path>>
    exists,     \* the paths os.path.exists answers True for
    wb,         \* what openpyxl.load_workbook finds at the located path
    pc,         \* main's position
    rom_path,   \* main's rom_path (NoPath for None)
    opened,     \* load_workbook has been called
    rom_data,   \* the document extract_rom_data returned (NoDoc before)
    outFile,    \* data/rom-data.json: [content, writes]
    exitCode,   \* the process's exit code (-1 while running)
    printed,    \* the summary block has been printed completely
    disk,       \* concurrent saves: the bytes of the shared output file
    saver,      \* concurrent saves: each invocation's save_json state
    lastWriter  \* concurrent saves: the invocation that wrote last (0: none)

vars == <<argv, exists, wb, pc, rom_path, opened, rom_data, outFile, exitCode,
          printed, disk, saver, lastWriter>>

mainVars == <<argv, exists, wb, pc, rom_path, opened, rom_data, outFile,
              exitCode, printed>>

saveVars == <<disk, saver, lastWriter>>

-----------------------------------------------------------------------------
(* Python values *)

None == [k |-> "none"]

PyInt(n) == [k |-> "int", v |-> n]

PyFloat(n, d) == [k |-> "float", num |-> n, den |-> d]

PyStr(s) == [k |-> "str", s |-> s]

\* bool(x) of a cell value: None, 0, 0.0 and "" are falsy
Truthy(c) ==
    CASE c.k = "none"  -> FALSE
      [] c.k = "int"   -> c.v # 0
      [] c.k = "float" -> c.num # 0
      [] c.k = "str"   -> Len(c.s) > 0

\* numeric equality of two Python numbers (60 == 60.0)
NumEq(a, b) ==
    LET an == IF a.k = "int" THEN a.v ELSE a.num
        ad == IF a.k = "int" THEN 1 ELSE a.den
        bn == IF b.k = "int" THEN b.v ELSE b.num
        bd == IF b.k = "int" THEN 1 ELSE b.den
    IN  an * bd = bn * ad

\* a + b of two Python ints
PyAdd(a, b) == PyInt(a.v + b.v)

Ok(v) == [ok |-> TRUE, v |-> v]

Raise == [ok |-> FALSE]

-----------------------------------------------------------------------------
(* Strings as sequences of characters *)

UpperChars == <<"A","B","C","D","E","F","G","H","I","J","K","L","M",
                "N","O","P","Q","R","S","T","U","V","W","X","Y","Z">>

LowerChars == <<"a","b","c","d","e","f","g","h","i","j","k","l","m",
                "n","o","p","q","r","s","t","u","v","w","x","y","z">>

Digits == <<"0","1","2","3","4","5","6","7","8","9">>

Whitespace == {" ", "\t", "\n"}

LowerChar(c) ==
    IF \E i \in 1..Len(UpperChars) : UpperChars[i] = c
    THEN LowerChars[CHOOSE i \in 1..Len(UpperChars) : UpperChars[i] = c]
    ELSE c

\* s.lower()
Lower(s) == [i \in 1..Len(s) |-> LowerChar(s[i])]

\* sub in s
Contains(sub, s) ==
    \E i \in 0..(Len(s) - Len(sub)) : SubSeq(s, i + 1, i + Len(sub)) = sub

RECURSIVE LStrip(_)
LStrip(s) ==
    IF s # <<>> /\ Head(s) \in Whitespace THEN LStrip(Tail(s)) ELSE s

RECURSIVE RStrip(_)
RStrip(s) ==
    IF s # <<>> /\ s[Len(s)] \in Whitespace
    THEN RStrip(SubSeq(s, 1, Len(s) - 1))
    ELSE s

\* s.strip()
Strip(s) == RStrip(LStrip(s))

\* s.replace(ch, "")
RECURSIVE Remove(_, _)
Remove(s, ch) ==
    IF s = <<>> THEN <<>>
    ELSE IF Head(s) = ch THEN Remove(Tail(s), ch)
    ELSE <<Head(s)>> \o Remove(Tail(s), ch)

IsDigit(c) == \E i \in 1..Len(Digits) : Digits[i] = c

DigitVal(c) == (CHOOSE i \in 1..Len(Digits) : Digits[i] = c) - 1

AllDigits(s) == \A i \in 1..Len(s) : IsDigit(s[i])

RECURSIVE ParseNat(_)
ParseNat(s) ==
    IF s = <<>> THEN 0
    ELSE ParseNat(SubSeq(s, 1, Len(s) - 1)) * 10 + DigitVal(s[Len(s)])

RECURSIVE Pow10(_)
Pow10(n) == IF n = 0 THEN 1 ELSE 10 * Pow10(n - 1)

RECURSIVE NatToStr(_)
NatToStr(n) ==
    IF n < 10 THEN <<Digits[n + 1]>>
    ELSE NatToStr(n \div 10) \o <<Digits[(n % 10) + 1]>>

RECURSIVE FracDigits(_, _)
FracDigits(rem, den) ==
    IF den = 1 THEN <<>>
    ELSE <<Digits[(rem \div (den \div 10)) + 1]>>
         \o FracDigits(rem % (den \div 10), den \div 10)

RECURSIVE DropTrailingZeros(_)
DropTrailingZeros(s) ==
    IF Len(s) > 1 /\ s[Len(s)] = "0"
    THEN DropTrailingZeros(SubSeq(s, 1, Len(s) - 1))
    ELSE s

\* str(x)
py_str(c) ==
    CASE c.k = "none"  -> <<"N","o","n","e">>
      [] c.k = "int"   -> NatToStr(c.v)
      [] c.k = "str"   -> c.s
      [] c.k = "float" ->
            NatToStr(c.num \div c.den) \o <<".">> \o
            (IF c.den = 1 THEN <<"0">>
             ELSE DropTrailingZeros(FracDigits(c.num % c.den, c.den)))

\* the places of "." in s
Dots(s) == {i \in 1..Len(s) : s[i] = "."}

\* float(x): None raises TypeError; text is stripped and must read
\* digits[.digits] (texts with a sign, an exponent, "inf" or "nan" are not
\* among the texts drawn), anything else raises ValueError
py_float(c) ==
    CASE c.k = "none"  -> Raise
      [] c.k = "int"   -> Ok(PyFloat(c.v, 1))
      [] c.k = "float" -> Ok(c)
      [] c.k = "str"   ->
            LET t == Strip(c.s)
            IN  IF t # <<>> /\ AllDigits(t) THEN Ok(PyFloat(ParseNat(t), 1))
                ELSE IF Cardinality(Dots(t)) = 1
                THEN LET d  == CHOOSE i \in Dots(t) : TRUE
                         ip == SubSeq(t, 1, d - 1)
                         fp == SubSeq(t, d + 1, Len(t))
                     IN  IF AllDigits(ip) /\ AllDigits(fp)
                            /\ Len(ip) + Len(fp) > 0
                         THEN Ok(PyFloat(ParseNat(ip \o fp), Pow10(Len(fp))))
                         ELSE Raise
                ELSE Raise

\* int(x): None raises TypeError; a float is truncated; text is stripped and
\* must be all digits ("2.5" raises ValueError)
py_int(c) ==
    CASE c.k = "none"  -> Raise
      [] c.k = "int"   -> Ok(c)
      [] c.k = "float" -> Ok(PyInt(c.num \div c.den))
      [] c.k = "str"   ->
            LET t == Strip(c.s)
            IN  IF t # <<>> /\ AllDigits(t) THEN Ok(PyInt(ParseNat(t)))
                ELSE Raise

-----------------------------------------------------------------------------
(* The workbook: wb.sheets maps each sheet name present to a sheet; a sheet *)
(* is [width, rows], rows the populated rows [r, cells] in row order, every *)
(* other row being blank.                                                    *)

\* the row number r of a sheet, as values_only gives it
RowAt(sheet, r) ==
    IF \E i \in 1..Len(sheet.rows) : sheet.rows[i].r = r
    THEN sheet.rows[CHOOSE i \in 1..Len(sheet.rows) : sheet.rows[i].r = r].cells
    ELSE [i \in 1..sheet.width |-> None]

\* sheet.iter_rows(min_row, max_row, values_only=True): one tuple per row
\* number of the range, blank rows included
iter_rows(sheet, min_row, max_row) ==
    [i \in 1..(max_row - min_row + 1) |-> RowAt(sheet, min_row + i - 1)]

\* row[i], Python's 0-based index; IndexError past the sheet's width
Idx(row, i) == IF i + 1 <= Len(row) THEN Ok(row[i + 1]) ELSE Raise

DriversMinRow == 1
DriversMaxRow == 20
PointsMinRow == 2
PointsMaxRow == 10
FeesMinRow == 10
FeesMaxRow == 25

DefaultVelocity == 60

sVelocity == <<"v","e","l","o","c","i","t","y">>
sTotal == <<"t","o","t","a","l">>
sPlaceholder == <<"A","d","d"," ","r","o","w","s"," ","a","s"," ",
                  "n","e","c","e","s","s","a","r","y">>

DefaultSummary ==
    [investmentLow  |-> PyInt(260000),
     investmentAvg  |-> PyInt(300000),
     investmentHigh |-> PyInt(370000),
     weeksLow       |-> PyInt(10),
     weeksAvg       |-> PyInt(12),
     weeksHigh      |-> PyInt(14),
     sprintsLow     |-> PyInt(5),
     sprintsAvg     |-> PyInt(6),
     sprintsHigh    |-> PyInt(7),
     targetVelocity |-> PyInt(DefaultVelocity),
     blendedRate    |-> PyFloat(10838, 100)]

\* {} and []
EmptyDict == <<>>
EmptyList == <<>>

\* "velocity" in str(row[0]).lower(), behind the guard row[0]
IsVelocityRow(row) ==
    Truthy(row[1]) /\ Contains(sVelocity, Lower(py_str(row[1])))

\* VelocityAssign with the except clause assigning the default
VelocityAssignReset(row, tv) ==
    LET c == Idx(row, 5)
    IN  IF c.ok /\ Truthy(c.v) /\ py_float(c.v).ok THEN py_float(c.v).v
        ELSE PyInt(DefaultVelocity)

\* the try block of the velocity loop: float(row[5]) if row[5] else 60, the
\* bare except (IndexError of a narrow sheet, ValueError of a text) leaving
\* the value as it was
VelocityAssign(row, tv) ==
    LET c == Idx(row, 5)
    IN  IF ~c.ok THEN tv
        ELSE IF ~Truthy(c.v) THEN PyInt(DefaultVelocity)
        ELSE IF py_float(c.v).ok THEN py_float(c.v).v
        ELSE tv

\* one iteration of the "Drivers & Estimates" loop
DriversStep(row, tv) ==
    IF IsVelocityRow(row) THEN VelocityAssign(row, tv) ELSE tv

RECURSIVE ScanDrivers(_, _)
ScanDrivers(rows, tv) ==
    IF rows = <<>> THEN tv
    ELSE ScanDrivers(Tail(rows), DriversStep(Head(rows), tv))

\* the summary section
ExtractSummary(sheets) ==
    IF "Drivers & Estimates" \in DOMAIN sheets
    THEN [DefaultSummary EXCEPT !.targetVelocity =
            ScanDrivers(iter_rows(sheets["Drivers & Estimates"],
                                  DriversMinRow, DriversMaxRow),
                        DefaultSummary.targetVelocity)]
    ELSE EmptyDict

\* str(row[0]).replace(" ", "").replace("&", "")
PhaseName(c) == Remove(Remove(py_str(c), " "), "&")

\* int(c) if c else 0, c the result of row[i]
IntOrZero(c) ==
    IF ~c.ok THEN Raise
    ELSE IF Truthy(c.v) THEN py_int(c.v) ELSE Ok(PyInt(0))

\* float(c) if c else 0
FloatOrZero(c) ==
    IF ~c.ok THEN Raise
    ELSE IF Truthy(c.v) THEN py_float(c.v) ELSE Ok(PyInt(0))

HasKey(d, key) == \E i \in 1..Len(d) : d[i].key = key

\* DictSet as d.setdefault(key, val): a present key keeps its value
DictSetKeepFirst(d, key, val) ==
    IF \E i \in 1..Len(d) : d[i].key = key THEN d
    ELSE Append(d, [key |-> key, val |-> val])

\* d[key] = val on an insertion-ordered dict: a present key keeps its place
DictSet(d, key, val) ==
    IF HasKey(d, key)
    THEN [i \in 1..Len(d) |->
            IF d[i].key = key THEN [key |-> key, val |-> val] ELSE d[i]]
    ELSE Append(d, [key |-> key, val |-> val])

\* one iteration of the "Points" loop: the phases after it, or the exception
PointsStep(row, phases) ==
    IF ~Truthy(row[1]) THEN Ok(phases)
    ELSE IF ~Idx(row, 1).ok THEN Raise
    ELSE IF Idx(row, 1).v = None THEN Ok(phases)
    ELSE LET lo == IntOrZero(Idx(row, 1))
             hi == IntOrZero(Idx(row, 2))
             fe == IntOrZero(Idx(row, 3))
         IN  IF lo.ok /\ hi.ok /\ fe.ok
             THEN Ok(DictSet(phases, PhaseName(row[1]),
                             [pointsLow |-> lo.v, pointsHigh |-> hi.v,
                              features |-> fe.v]))
             ELSE Raise

RECURSIVE ScanPoints(_, _)
ScanPoints(rows, phases) ==
    IF rows = <<>> THEN Ok(phases)
    ELSE LET st == PointsStep(Head(rows), phases)
         IN  IF st.ok THEN ScanPoints(Tail(rows), st.v) ELSE Raise

\* the phases section, or the exception
ExtractPhases(sheets) ==
    IF "Points" \in DOMAIN sheets
    THEN ScanPoints(iter_rows(sheets["Points"], PointsMinRow, PointsMaxRow),
                    EmptyDict)
    ELSE Ok(EmptyDict)

\* IsStaffRow without the test of the fte cell
IsStaffRowAnyFte(row) ==
    /\ Truthy(row[1])
    /\ Idx(row, 1).ok
    /\ ~Contains(sTotal, Lower(py_str(row[1])))
    /\ Strip(py_str(row[1])) # <<>>
    /\ Strip(py_str(row[1])) # sPlaceholder

\* row[0] and row[1] and "total" not in str(row[0]).lower(), then
\* role = str(row[0]).strip() and role not in ["", "Add rows as necessary"]
IsStaffRow(row) ==
    /\ Truthy(row[1])
    /\ Idx(row, 1).ok /\ Truthy(Idx(row, 1).v)
    /\ ~Contains(sTotal, Lower(py_str(row[1])))
    /\ Strip(py_str(row[1])) # <<>>
    /\ Strip(py_str(row[1])) # sPlaceholder

\* one iteration of the "Fees & costs" loop
FeesStep(row, staffing) ==
    IF ~Truthy(row[1]) THEN Ok(staffing)
    ELSE IF ~Idx(row, 1).ok THEN Raise
    ELSE IF ~IsStaffRow(row) THEN Ok(staffing)
    ELSE LET fte  == FloatOrZero(Idx(row, 1))
             rate == FloatOrZero(Idx(row, 2))
         IN  IF fte.ok /\ rate.ok
             THEN Ok(Append(staffing,
                            [role |-> Strip(py_str(row[1])),
                             fte |-> fte.v, costRate |-> rate.v]))
             ELSE Raise

RECURSIVE ScanFees(_, _)
ScanFees(rows, staffing) ==
    IF rows = <<>> THEN Ok(staffing)
    ELSE LET st == FeesStep(Head(rows), staffing)
         IN  IF st.ok THEN ScanFees(Tail(rows), st.v) ELSE Raise

\* the staffing section, or the exception
ExtractStaffing(sheets) ==
    IF "Fees & costs" \in DOMAIN sheets
    THEN ScanFees(iter_rows(sheets["Fees & costs"], FeesMinRow, FeesMaxRow),
                  EmptyList)
    ELSE Ok(EmptyList)

-----------------------------------------------------------------------------
(* The document *)

\* datetime.now().strftime("%Y-%m-%d"), fixed for a run
Today == "2026-02-01"

\* os.path.basename of a path [dir, base]
Basename(path) == path.base

Meta(excel_path) ==
    [lastUpdated |-> Today,
     version     |-> "1.0",
     client      |-> "MAHLE",
     project     |-> "AI Finance Transformation",
     sourceFile  |-> Basename(excel_path)]

BusinessCase ==
    [currentDSO              |-> PyInt(60),
     targetDSOReduction      |-> PyInt(10),
     receivables             |-> PyInt(70000000),
     dailySalesRate          |-> PyInt(1166667),
     workingCapitalFreed     |-> PyInt(11666670),
     costOfCapital           |-> PyFloat(35, 1000),
     annualCapitalSavings    |-> PyInt(408333),
     vendorInquiryFTEs       |-> PyInt(15),
     deflectionRateTarget    |-> PyFloat(65, 100),
     apTimeSavingsTarget     |-> PyFloat(25, 100),
     invoiceCycleCurrentDays |-> PyInt(5),
     invoiceCycleTargetDays  |-> PyInt(2),
     aiAccuracyTarget        |-> PyFloat(80, 100)]

ValueProjections ==
    [workingCapitalValue      |-> PyInt(400000),
     apProductivityValue      |-> PyInt(180000),
     processAccelerationValue |-> PyInt(70000),
     totalYear1Value          |-> PyInt(650000),
     totalYear2Value          |-> PyInt(850000),
     paybackMonths            |-> PyInt(5),
     threeYearROI             |-> PyFloat(55, 10)]

Timeline ==
    [phases |-> <<
        [name |-> "Discovery & Setup", weeks |-> "1-2",
         description |-> "Kickoff, data source identification, environment setup"],
        [name |-> "AI Development", weeks |-> "3-5",
         description |-> "SAP integration, AI model configuration, prompt engineering"],
        [name |-> "UI & Testing", weeks |-> "6-8",
         description |-> "Power Apps interface, workflow testing, UAT"],
        [name |-> "Live Pilot", weeks |-> "9-12",
         description |-> "Process 100+ invoices, measure results, prepare recommendations"] >>,
     milestones |-> <<
        [date |-> "February 2026", event |-> "Scope & budget alignment"],
        [date |-> "End of February", event |-> "MSA terms complete"],
        [date |-> "Early March", event |-> "SOW delivered"],
        [date |-> "Mid-March", event |-> "Finalize agreements"],
        [date |-> "April 6", event |-> "Project kick-off"],
        [date |-> "Late June", event |-> "Pilot live"] >>]

UseCases ==
    << [id |-> PyInt(1),
        name |-> "AI Vendor Communication Bot",
        type |-> "Quick Win",
        challenge |-> "Vendor inquiries take 2-3 days via portal or 5-10 days via email",
        solution |-> "AI-powered chatbot handling invoice status and payment queries in real-time",
        targets |-> << [metric |-> "Deflection rate", value |-> "60-70%"],
                       [metric |-> "Response time", value |-> "< 5 minutes"],
                       [metric |-> "AP time savings", value |-> "20-30%"] >>],
       [id |-> PyInt(2),
        name |-> "Order-to-Cash AI Automation",
        type |-> "Strategic Win",
        challenge |-> "$70M trapped in receivables, 60-day DSO due to ECN delays",
        solution |-> "AI identifies ECNs, calculates pricing impact, generates invoice drafts",
        targets |-> << [metric |-> "Invoice cycle time", value |-> "30-40% reduction"],
                       [metric |-> "AI accuracy", value |-> "80%+ vs manual"],
                       [metric |-> "Working capital", value |-> "Faster unlock"] >>] >>

\* sum(p.get(field, 0) for p in phases.values())
RECURSIVE SumField(_, _)
SumField(phases, field) ==
    IF phases = <<>> THEN PyInt(0)
    ELSE PyAdd(Head(phases).val[field], SumField(Tail(phases), field))

\* ComputeTotals with pointsHigh summed from pointsLow
ComputeTotalsSameField(phases) ==
    IF phases # EmptyDict
    THEN [pointsLow     |-> SumField(phases, "pointsLow"),
          pointsHigh    |-> SumField(phases, "pointsLow"),
          totalFeatures |-> SumField(phases, "features")]
    ELSE EmptyDict

\* the totals section: computed when phases is non-empty, else left {}
ComputeTotals(phases) ==
    IF phases # EmptyDict
    THEN [pointsLow     |-> SumField(phases, "pointsLow"),
          pointsHigh    |-> SumField(phases, "pointsHigh"),
          totalFeatures |-> SumField(phases, "features")]
    ELSE EmptyDict

\* Team filled with the roles of the staffing section
TeamFromStaffing(sheets) ==
    LET st == ExtractStaffing(sheets)
    IN  IF st.ok THEN [i \in 1..Len(st.v) |-> st.v[i].role] ELSE EmptyList

\* the team section: initialised to [] and never assigned again
Team(sheets) == EmptyList

\* the rom_data dict once every section is assigned
Document(excel_path, sheets, phases, staffing) ==
    [meta             |-> Meta(excel_path),
     summary          |-> ExtractSummary(sheets),
     team             |-> Team(sheets),
     phases           |-> phases,
     totals           |-> ComputeTotals(phases),
     businessCase     |-> BusinessCase,
     valueProjections |-> ValueProjections,
     timeline         |-> Timeline,
     useCases         |-> UseCases,
     staffing         |-> staffing]

\* extract_rom_data(excel_path) on the workbook w: the document, or the
\* exception that leaves it (load_workbook on an unreadable file, int() or
\* float() on a text cell, an index past a narrow sheet)
extract_rom_data(excel_path, w) ==
    IF ~w.readable THEN Raise
    ELSE LET ph == ExtractPhases(w.sheets)
             st == ExtractStaffing(w.sheets)
         IN  IF ph.ok /\ st.ok
             THEN Ok(Document(excel_path, w.sheets, ph.v, st.v))
             ELSE Raise

-----------------------------------------------------------------------------
(* Locating the workbook *)

NoPath == [dir |-> "", base |-> ""]

PathParentV1 == [dir |-> "..", base |-> "MAHLE_ROM_2026_Populated_v1.xlsx"]
PathCwdV1 == [dir |-> ".", base |-> "MAHLE_ROM_2026_Populated_v1.xlsx"]
PathStar == [dir |-> "..", base |-> "MAHLE_ROM*.xlsx"]
PathOther1 == [dir |-> "..", base |-> "Client_ROM_v2.xlsx"]
PathOther2 == [dir |-> "..", base |-> "Old_ROM.xlsx"]
PathGiven == [dir |-> "in", base |-> "book.xlsx"]
PathMissing == [dir |-> "in", base |-> "nope.xlsx"]

possible_paths == <<PathParentV1, PathCwdV1, PathStar>>

LocatorPaths == {PathParentV1, PathCwdV1, PathStar, PathOther1, PathOther2}

\* glob.glob("../*ROM*.xlsx") over the files that exist
GlobMatches(ex) ==
    {p \in ex : p.dir = ".." /\ p \in LocatorPaths}

\* find_rom_file(): the values it can return (glob's order is the
\* directory's, so matches[0] is any match)
find_rom_file(ex) ==
    IF \E i \in 1..Len(possible_paths) : possible_paths[i] \in ex
    THEN {possible_paths[CHOOSE i \in 1..Len(possible_paths) :
            /\ possible_paths[i] \in ex
            /\ \A j \in 1..(i - 1) : possible_paths[j] \notin ex]}
    ELSE IF GlobMatches(ex) # {} THEN GlobMatches(ex)
    ELSE {NoPath}

\* ChooseRomPath falling back on the search when the argument is missing
ChooseRomPathFallback(args, ex) ==
    IF Len(args) > 0 /\ args[1] \in ex THEN {args[1]} ELSE find_rom_file(ex)

\* main's choice of rom_path
ChooseRomPath(args, ex) ==
    IF Len(args) > 0 THEN {args[1]} ELSE find_rom_file(ex)

-----------------------------------------------------------------------------
(* main *)

NoDoc == [k |-> "nodoc"]
NoFile == [k |-> "nofile"]
OldFile == [k |-> "old"]

\* lines 230-239: pick the path, exit 1 when there is none
Locate ==
    /\ pc = "start"
    /\ \E p \in ChooseRomPath(argv, exists) :
        /\ rom_path' = p
        /\ IF p = NoPath \/ p \notin exists
           THEN pc' = "exited" /\ exitCode' = 1
           ELSE pc' = "extract" /\ exitCode' = exitCode
    /\ UNCHANGED <<argv, exists, wb, opened, rom_data, outFile, printed>>
    /\ UNCHANGED saveVars

\* line 242: rom_data = extract_rom_data(rom_path); an exception ends the
\* process with a traceback and exit code 1
Extract ==
    /\ pc = "extract"
    /\ opened' = TRUE
    /\ LET r == extract_rom_data(rom_path, wb)
       IN  IF r.ok
           THEN rom_data' = r.v /\ pc' = "save" /\ exitCode' = exitCode
           ELSE rom_data' = rom_data /\ pc' = "crashed" /\ exitCode' = 1
    /\ UNCHANGED <<argv, exists, wb, rom_path, outFile, printed>>
    /\ UNCHANGED saveVars

\* json.dump(data, f, indent=2) into the opened file
Written(data, file) == [content |-> data, writes |-> file.writes + 1]

\* lines 245-246: save_json(rom_data, "data/rom-data.json")
Save ==
    /\ pc = "save"
    /\ outFile' = Written(rom_data, outFile)
    /\ pc' = "summary"
    /\ UNCHANGED <<argv, exists, wb, rom_path, opened, rom_data, exitCode,
                   printed>>
    /\ UNCHANGED saveVars

\* the keys the summary block reads: a missing one is a KeyError
SummaryReadable(data) ==
    /\ "lastUpdated" \in DOMAIN data.meta
    /\ "investmentAvg" \in DOMAIN data.summary
    /\ "weeksAvg" \in DOMAIN data.summary
    /\ "totalYear1Value" \in DOMAIN data.valueProjections
    /\ "paybackMonths" \in DOMAIN data.valueProjections

\* lines 248-260: the summary block, then the normal end of the process
PrintSummary ==
    /\ pc = "summary"
    /\ IF SummaryReadable(rom_data)
       THEN printed' = TRUE /\ pc' = "done" /\ exitCode' = 0
       ELSE printed' = FALSE /\ pc' = "crashed" /\ exitCode' = 1
    /\ UNCHANGED <<argv, exists, wb, rom_path, opened, rom_data, outFile>>
    /\ UNCHANGED saveVars

Next == Locate \/ Extract \/ Save \/ PrintSummary

-----------------------------------------------------------------------------
(* The inputs drawn *)

\* the most populated rows a drawn sheet holds
MaxRows == 2

\* the longest document, in bytes, a concurrent save writes
MaxDocLen == 3

Absent == [k |-> "absent"]

SheetNames == {"Drivers & Estimates", "Points", "Fees & costs", "Notes"}

\* wb.sheets from the four sheets, each a sheet or Absent
MkSheets(d, p, f, n) ==
    LET all == [nm \in SheetNames |->
                  CASE nm = "Drivers & Estimates" -> d
                    [] nm = "Points" -> p
                    [] nm = "Fees & costs" -> f
                    [] nm = "Notes" -> n]
    IN  [nm \in {x \in SheetNames : all[x] # Absent} |-> all[nm]]

SetMin(R) == CHOOSE m \in R : \A x \in R : m <= x

RECURSIVE RowsOf(_, _)
RowsOf(R, f) ==
    IF R = {} THEN <<>>
    ELSE <<[r |-> SetMin(R), cells |-> f[SetMin(R)]]>>
         \o RowsOf(R \ {SetMin(R)}, f)

\* the sheets of a width with at most n populated rows, at row numbers of
\* rowNums, each row one of cands cut to the width
SheetSet(width, cands, rowNums, n) ==
    UNION {{[width |-> width, rows |-> RowsOf(R, f)] :
              f \in [R -> {SubSeq(c, 1, width) : c \in cands}]} :
           R \in {Q \in SUBSET rowNums : Cardinality(Q) <= n}}

\* rows of "Drivers & Estimates": the label and the 6th cell
DriverRows == {
    <<PyStr(<<"T","a","r","g","e","t"," ","V","e","l","o","c","i","t","y">>), None, None, None, None, PyInt(75)>>,
    <<PyStr(<<"v","e","l","o","c","i","t","y">>), None, None, None, None, None>>,
    <<PyStr(<<"V","E","L","O","C","I","T","Y">>), None, None, None, None, PyStr(<<"a","b","c">>)>>,
    <<PyStr(<<"V","e","l","o","c","i","t","y">>), None, None, None, None, PyStr(<<"8","0">>)>>,
    <<PyStr(<<"S","p","r","i","n","t","s">>), None, None, None, None, PyInt(90)>>,
    <<None, None, None, None, None, PyInt(50)>>,
    <<PyStr(<<"V","e","l","o","c","i","t","y">>), None, None, None, None, PyInt(0)>>,
    <<PyStr(<<"V","e","l","o","c","i","t","y">>), None, None, None, None, PyFloat(625, 10)>> }

\* rows of "Points": name, low, high, features
PointRows == {
    <<PyStr(<<"P","h","a","s","e"," ","O","n","e">>), PyInt(10), PyInt(20), PyInt(3)>>,
    <<PyStr(<<"P","h","a","s","e"," ","&"," ","T","w","o">>), PyInt(5), PyInt(8), PyInt(2)>>,
    <<PyStr(<<"P","h","a","s","e","O","n","e">>), PyInt(1), PyFloat(25, 10), None>>,
    <<None, PyInt(7), PyInt(7), PyInt(7)>>,
    <<PyStr(<<"P","h","a","s","e"," ","X">>), None, PyInt(4), PyInt(1)>>,
    <<PyStr(<<"P","h","a","s","e"," ","Z">>), PyInt(0), None, PyStr(<<"4">>)>>,
    <<PyStr(<<"B","a","d">>), PyStr(<<"a","b","c">>), PyInt(1), PyInt(1)>>,
    <<PyStr(<<>>), PyInt(3), PyInt(3), PyInt(3)>>,
    <<PyStr(<<"P","h","a","s","e"," ","&"," ","O","n","e">>), PyInt(6), PyInt(6), PyInt(6)>> }

\* rows of "Fees & costs": role, fte, cost rate
FeeRows == {
    <<PyStr(<<"A","n","a","l","y","s","t">>), PyInt(2), PyFloat(855, 10)>>,
    <<PyStr(<<"T","o","t","a","l"," ","S","t","a","f","f">>), PyInt(10), PyInt(100)>>,
    <<PyStr(<<"A","d","d"," ","r","o","w","s"," ","a","s"," ","n","e","c","e","s","s","a","r","y">>), PyInt(1), PyInt(0)>>,
    <<PyStr(<<"E","n","g","i","n","e","e","r">>), PyInt(0), PyInt(120)>>,
    <<PyStr(<<"D","e","s","i","g","n","e","r">>), None, PyInt(95)>>,
    <<PyStr(<<" ","P","M"," ">>), PyFloat(5, 10), None>>,
    <<PyStr(<<"L","e","a","d">>), PyStr(<<"a","b","c">>), PyInt(1)>>,
    <<PyStr(<<" "," ">>), PyInt(1), PyInt(1)>> }

\* row numbers on both sides of each scanned range
DriverRowNums == {1, 2, 20, 21}
PointRowNums == {1, 2, 3, 10, 11}
FeeRowNums == {9, 10, 25, 26}

\* the drawn sheets with at most n populated rows: "Drivers & Estimates"
\* with and without a 6th column, "Points" and "Fees & costs"
DriverSheets(n) ==
    SheetSet(6, DriverRows, DriverRowNums, n)
    \cup SheetSet(5, DriverRows, DriverRowNums, n)

PointSheets(n) == SheetSet(4, PointRows, PointRowNums, n)

FeeSheets(n) == SheetSet(3, FeeRows, FeeRowNums, n)

\* the sheets of the example workbook
DriversExample ==
    [width |-> 6, rows |-> <<[r |-> 3, cells |-> <<PyStr(<<"T","a","r","g","e","t"," ","V","e","l","o","c","i","t","y">>), None, None, None, None, PyInt(75)>>]>>]

PointsExample ==
    [width |-> 4, rows |-> <<
        [r |-> 2, cells |-> <<PyStr(<<"P","h","a","s","e"," ","O","n","e">>), PyInt(10), PyInt(20), PyInt(3)>>],
        [r |-> 3, cells |-> <<PyStr(<<"P","h","a","s","e"," ","&"," ","T","w","o">>), PyInt(5), PyInt(8), PyInt(2)>>]>>]

PointsText ==
    [width |-> 4, rows |-> <<
        [r |-> 2, cells |-> <<PyStr(<<"P","h","a","s","e"," ","O","n","e">>), PyStr(<<"n","/","a">>), PyInt(20), PyInt(3)>>]>>]

FeesExample ==
    [width |-> 3, rows |-> <<
        [r |-> 10, cells |-> <<PyStr(<<"A","n","a","l","y","s","t">>), PyInt(2), PyFloat(855, 10)>>],
        [r |-> 11, cells |-> <<PyStr(<<"A","d","d"," ","r","o","w","s"," ","a","s"," ","n","e","c","e","s","s","a","r","y">>), PyInt(0), PyInt(0)>>],
        [r |-> 12, cells |-> <<PyStr(<<"T","o","t","a","l"," ","S","t","a","f","f">>), PyInt(10), PyInt(100)>>]>>]

NotesSheet == [width |-> 1, rows |-> <<>>]

Unreadable == [readable |-> FALSE, sheets |-> <<>>]

Workbook(d, p, f, n) == [readable |-> TRUE, sheets |-> MkSheets(d, p, f, n)]

MainWorkbooks ==
    {Unreadable} \cup
    {Workbook(d, p, f, n) :
        d \in {Absent, DriversExample},
        p \in {Absent, PointsExample, PointsText},
        f \in {Absent, FeesExample},
        n \in {Absent, NotesSheet}}

NewFile(c) == [content |-> c, writes |-> 0]

\* two invocations of the tool
Invocations == {1, 2}

NoSaver ==
    [p \in Invocations |->
        [pc |-> "idle", pos |-> 0, len |-> 0, clean |-> FALSE, raced |-> FALSE]]

\* no concurrent save in progress
InitNoSave ==
    /\ disk = <<>>
    /\ saver = NoSaver
    /\ lastWriter = 0

\* a run of main that is about to start
InitRun ==
    /\ pc = "start"
    /\ rom_path = NoPath
    /\ opened = FALSE
    /\ rom_data = NoDoc
    /\ exitCode = -1
    /\ printed = FALSE

\* any command line, any set of existing files, the example workbook with
\* any of its sheets missing
Init ==
    /\ InitRun
    /\ InitNoSave
    /\ argv \in {<<>>, <<PathGiven>>, <<PathMissing>>}
    /\ exists \in {S \cup {PathGiven} : S \in SUBSET LocatorPaths}
    /\ wb \in MainWorkbooks
    /\ outFile \in {NewFile(NoFile), NewFile(OldFile)}

\* the workbook given on the command line, with one sheet drawn
InitGiven ==
    /\ InitRun
    /\ InitNoSave
    /\ argv = <<PathGiven>>
    /\ exists = {PathGiven}
    /\ outFile = NewFile(NoFile)

InitDrivers ==
    /\ InitGiven
    /\ wb \in {Workbook(d, p, Absent, Absent) :
                 d \in DriverSheets(MaxRows), p \in {Absent, PointsExample}}

InitPoints ==
    /\ InitGiven
    /\ wb \in {Workbook(d, p, Absent, Absent) :
                 d \in {Absent, DriversExample}, p \in PointSheets(MaxRows)}

InitFees ==
    /\ InitGiven
    /\ wb \in {Workbook(DriversExample, Absent, f, Absent) :
                 f \in FeeSheets(MaxRows)}

Spec == Init /\ [][Next]_vars

SpecDrivers == InitDrivers /\ [][Next]_vars

SpecPoints == InitPoints /\ [][Next]_vars

SpecFees == InitFees /\ [][Next]_vars

-----------------------------------------------------------------------------
(* Two invocations saving to the same output path.  save_json opens the   *)
(* file with mode 'w' (truncating it), json.dump writes through the file's *)
(* buffer, which reaches the file in one or more chunks at the writer's    *)
(* own offset, and leaving the with block flushes the rest and closes.     *)
(* Byte i of invocation p's document is <<p, i>>.  saver[p].clean records  *)
(* that the other invocation has not written since p opened, raced that    *)
(* the other had the file open when p opened it.                            *)

Other(p) == 3 - p

\* the serialized document of invocation p
DocBytes(p) == [i \in 1..saver[p].len |-> <<p, i>>]

\* a byte of a hole left by writing past the end of the file
Hole == <<0, 0>>

\* Truncate for a file opened without truncation
OpenKeepingContent(d) == d

\* open(output_path, 'w') on the file's content
Truncate(d) == <<>>

\* write(chunk) at offset pos
WriteAt(d, pos, chunk) ==
    LET end == pos + Len(chunk)
        n   == IF Len(d) > end THEN Len(d) ELSE end
    IN  [i \in 1..n |->
            IF i > pos /\ i <= end THEN chunk[i - pos]
            ELSE IF i <= Len(d) THEN d[i]
            ELSE Hole]

\* line 224: with open(output_path, 'w') as f
SaveOpen(p) ==
    /\ saver[p].pc = "idle"
    /\ disk' = Truncate(disk)
    /\ saver' = [saver EXCEPT ![p] =
                    [@ EXCEPT !.pc = "open", !.pos = 0, !.clean = TRUE,
                              !.raced = (saver[Other(p)].pc = "open")]]
    /\ UNCHANGED lastWriter
    /\ UNCHANGED mainVars

\* line 225: the next chunk of json.dump's output reaches the file
SaveWrite(p) ==
    /\ saver[p].pc = "open"
    /\ saver[p].pos < saver[p].len
    /\ \E n \in 1..(saver[p].len - saver[p].pos) :
        /\ disk' = WriteAt(disk, saver[p].pos,
                           SubSeq(DocBytes(p), saver[p].pos + 1,
                                  saver[p].pos + n))
        /\ saver' = [saver EXCEPT ![p] = [@ EXCEPT !.pos = @ + n],
                                  ![Other(p)] = [@ EXCEPT !.clean = FALSE]]
    /\ lastWriter' = p
    /\ UNCHANGED mainVars

\* the end of the with block, everything written
SaveClose(p) ==
    /\ saver[p].pc = "open"
    /\ saver[p].pos = saver[p].len
    /\ saver' = [saver EXCEPT ![p] = [@ EXCEPT !.pc = "closed"]]
    /\ UNCHANGED <<disk, lastWriter>>
    /\ UNCHANGED mainVars

\* the file before the two saves: absent (empty) or holding older bytes
OldByte == <<0, 1>>

\* two invocations about to save documents of any two lengths
InitSave ==
    /\ InitRun
    /\ argv = <<PathGiven>>
    /\ exists = {PathGiven}
    /\ wb = Workbook(Absent, Absent, Absent, Absent)
    /\ outFile = NewFile(NoFile)
    /\ disk \in {<<>>, <<OldByte>>}
    /\ saver \in [Invocations ->
                    {[pc |-> "idle", pos |-> 0, len |-> n, clean |-> FALSE,
                      raced |-> FALSE] : n \in 1..MaxDocLen}]
    /\ lastWriter = 0

NextSave == \E p \in Invocations : SaveOpen(p) \/ SaveWrite(p) \/ SaveClose(p)

SpecSave == InitSave /\ [][NextSave]_vars

-----------------------------------------------------------------------------
(* The claims *)

Ended == pc \in {"exited", "crashed", "done"}

\* extract_rom_data has returned a document
Returned == rom_data # NoDoc

HasSheet(name) == wb.readable /\ name \in DOMAIN wb.sheets

\* C1: every run ends either in full success (the output file holds the
\* complete document, the summary is printed, exit code 0) or in failure
\* with no output file written; no run ends in failure after writing it.
C1_AllOrNothing ==
    Ended =>
        \/ /\ pc = "done" /\ exitCode = 0 /\ printed
           /\ outFile.writes = 1 /\ outFile.content = rom_data
        \/ /\ pc # "done" /\ exitCode # 0
           /\ outFile.writes = 0

\* C2: for a workbook with none of the three recognized sheets, the returned
\* document has phases, totals and staffing empty and summary equal to the
\* hardcoded defaults.
C2_NoSheetsDefaults ==
    (/\ Returned
     /\ ~HasSheet("Drivers & Estimates")
     /\ ~HasSheet("Points")
     /\ ~HasSheet("Fees & costs"))
    => /\ rom_data.phases = EmptyDict
       /\ rom_data.totals = EmptyDict
       /\ rom_data.staffing = EmptyList
       /\ DOMAIN rom_data.summary = DOMAIN DefaultSummary
       /\ rom_data.summary = DefaultSummary

\* C3: extract_rom_data never raises because of cell contents: once a
\* readable workbook has been opened, whatever its cells hold (a text cell
\* in a numeric column included), extraction returns a document.
C3_NoRaiseOnCells ==
    (opened /\ wb.readable) => (Returned /\ pc # "crashed")

\* C8: with an explicit path argument that does not exist, the workbook is
\* never opened, the output file is neither created nor modified, the
\* locator search is not consulted, and the run ends with a non-zero exit
\* code.
C8_MissingExplicitPath ==
    (Len(argv) > 0 /\ argv[1] \notin exists) =>
        /\ ~opened
        /\ outFile.writes = 0
        /\ outFile.content \in {NoFile, OldFile}
        /\ rom_data = NoDoc
        /\ pc \in {"start", "exited"}
        /\ pc = "exited" => (exitCode # 0 /\ exitCode # -1 /\ rom_path = argv[1])

\* C8's case: the run has ended on a missing explicit path while the
\* locator would have found a workbook and an older output file exists
C8_Witness ==
    /\ argv = <<PathMissing>>
    /\ pc = "exited"
    /\ PathParentV1 \in exists
    /\ outFile = NewFile(OldFile)

TopLevelKeys ==
    {"meta", "summary", "team", "phases", "totals", "businessCase",
     "valueProjections", "timeline", "useCases", "staffing"}

\* C9: every returned document has exactly the ten top-level keys, team is
\* the empty list, and businessCase, valueProjections, timeline and useCases
\* are the fixed constants whatever the workbook holds.
C9_StaticSections ==
    Returned =>
        /\ DOMAIN rom_data = TopLevelKeys
        /\ rom_data.team = EmptyList
        /\ rom_data.businessCase = BusinessCase
        /\ rom_data.valueProjections = ValueProjections
        /\ rom_data.timeline = Timeline
        /\ rom_data.useCases = UseCases

\* C9's case: a document drawn from a workbook whose three sheets all
\* contributed
C9_Witness ==
    /\ Returned
    /\ rom_data.staffing # EmptyList
    /\ rom_data.phases # EmptyDict
    /\ "targetVelocity" \in DOMAIN rom_data.summary
    /\ rom_data.summary.targetVelocity = PyFloat(75, 1)
    /\ rom_data.businessCase.receivables = PyInt(70000000)

SetMax(R) == CHOOSE m \in R : \A x \in R : m >= x

\* the members of a finite set of numbers, ascending
RECURSIVE Ascending(_)
Ascending(R) ==
    IF R = {} THEN <<>> ELSE <<SetMin(R)>> \o Ascending(R \ {SetMin(R)})

\* the 6th cell of a row, None where the sheet has no 6th column
SixthCell(row) == IF Len(row) >= 6 THEN row[6] ELSE None

\* the first cell contains "velocity", case-insensitively
VelocityLabel(row) ==
    Truthy(row[1]) /\ Contains(sVelocity, Lower(py_str(row[1])))

\* rows 1-20 of "Drivers & Estimates"
DriverRange == iter_rows(wb.sheets["Drivers & Estimates"], 1, 20)

LabelledRows == {i \in DOMAIN DriverRange : VelocityLabel(DriverRange[i])}

\* the value C4 states: the last labelled row's 6th cell as a number, 60
\* when that cell is empty (a zero counted as empty) or not numeric, 60 with
\* no labelled row
C4_StatedValue ==
    IF LabelledRows = {} THEN PyInt(60)
    ELSE LET c == SixthCell(DriverRange[SetMax(LabelledRows)])
         IN  IF Truthy(c) /\ py_float(c).ok THEN py_float(c).v
             ELSE PyInt(60)

\* C4 as stated: with the "Drivers & Estimates" sheet present,
\* summary.targetVelocity is decided by the last row of rows 1-20 whose first
\* cell contains "velocity": that row's 6th cell as a number, or 60 if the
\* cell is empty or non-numeric (even after an earlier row set a value).
C4_LastLabelledRow ==
    (Returned /\ HasSheet("Drivers & Estimates")) =>
        NumEq(rom_data.summary.targetVelocity, C4_StatedValue)

\* the labelled rows that assign: the 6th cell exists and is empty, zero or
\* readable as a number
AssigningRows ==
    {i \in LabelledRows :
        /\ Len(DriverRange[i]) >= 6
        /\ (~Truthy(DriverRange[i][6]) \/ py_float(DriverRange[i][6]).ok)}

\* C4 as amended: summary.targetVelocity is decided by the last labelled row
\* of rows 1-20 whose 6th cell is empty, zero or numeric: 60 for an empty or
\* zero cell, else the cell as a float; a labelled row whose 6th cell is
\* non-numeric text, or missing from a narrow sheet, leaves the value of the
\* earlier rows; with no assigning row it is 60.
C4_LastAssigningRow ==
    (Returned /\ HasSheet("Drivers & Estimates")) =>
        rom_data.summary.targetVelocity =
            IF AssigningRows = {} THEN PyInt(60)
            ELSE LET c == DriverRange[SetMax(AssigningRows)][6]
                 IN  IF Truthy(c) THEN py_float(c).v ELSE PyInt(60)

\* C4's case: the last labelled row holds non-numeric text and an earlier
\* labelled row had set 75
C4_Witness ==
    /\ Returned /\ HasSheet("Drivers & Estimates")
    /\ AssigningRows # {}
    /\ SetMax(LabelledRows) \notin AssigningRows
    /\ SixthCell(DriverRange[SetMax(LabelledRows)]).k = "str"
    /\ rom_data.summary.targetVelocity = PyFloat(75, 1)

\* rows 10-25 of "Fees & costs", by row number
FeeRange == iter_rows(wb.sheets["Fees & costs"], 10, 25)

\* the staffing record of a row
StaffEntry(row) ==
    [role     |-> Strip(py_str(row[1])),
     fte      |-> IF Truthy(row[2]) /\ py_float(row[2]).ok
                  THEN py_float(row[2]).v ELSE PyInt(0),
     costRate |-> IF Truthy(row[3]) /\ py_float(row[3]).ok
                  THEN py_float(row[3]).v ELSE PyInt(0)]

\* the rows C5 states: first cell non-empty (blanks alone counted as
\* empty), without "total", not the placeholder
C5_StatedRows ==
    {i \in DOMAIN FeeRange :
        /\ Truthy(FeeRange[i][1])
        /\ ~Contains(sTotal, Lower(py_str(FeeRange[i][1])))
        /\ Strip(py_str(FeeRange[i][1])) \notin {<<>>, sPlaceholder}}

\* C5 as stated: staffing holds, in row order, exactly the rows of rows
\* 10-25 whose first cell is non-empty, does not contain "total" and is not
\* the placeholder; no other condition (an fte of 0 or an empty fte cell)
\* excludes a row.
C5_RowsByFirstCell ==
    (Returned /\ HasSheet("Fees & costs")) =>
        /\ Len(rom_data.staffing) = Cardinality(C5_StatedRows)
        /\ \A k \in 1..Len(rom_data.staffing) :
              rom_data.staffing[k] =
                  StaffEntry(FeeRange[Ascending(C5_StatedRows)[k]])

\* the rows the loop keeps: besides the first cell's conditions, the fte
\* cell is neither empty nor zero, and the role left after strip() is
\* neither empty nor the placeholder
KeptFeeRows ==
    {i \in DOMAIN FeeRange :
        /\ Truthy(FeeRange[i][1])
        /\ Truthy(FeeRange[i][2])
        /\ ~Contains(sTotal, Lower(py_str(FeeRange[i][1])))
        /\ Strip(py_str(FeeRange[i][1])) \notin {<<>>, sPlaceholder}}

\* C5 as amended: in every returned document, staffing holds, in row order,
\* exactly the rows of rows 10-25 whose first cell is non-empty, whose fte
\* cell is neither empty nor zero, whose first cell does not contain "total"
\* and whose first cell, stripped of surrounding blanks, is neither empty
\* nor the placeholder; role is the stripped first cell.
C5_RowsByFirstCellAndFte ==
    (Returned /\ HasSheet("Fees & costs")) =>
        /\ Len(rom_data.staffing) = Cardinality(KeptFeeRows)
        /\ \A k \in 1..Len(rom_data.staffing) :
              rom_data.staffing[k] =
                  StaffEntry(FeeRange[Ascending(KeptFeeRows)[k]])

\* C5's case: a row with a role and an fte of 0 or no fte is left out while
\* another row is kept
C5_Witness ==
    /\ Returned /\ HasSheet("Fees & costs")
    /\ Len(rom_data.staffing) = 1
    /\ \E i \in C5_StatedRows \ KeptFeeRows :
          /\ ~Truthy(FeeRange[i][2])
          /\ Strip(py_str(FeeRange[i][1])) \notin {<<>>, sPlaceholder}

\* rows 2-10 of "Points", by position
PointRange == iter_rows(wb.sheets["Points"], 2, 10)

\* the name with every space and every "&" removed
NormalName(row) ==
    LET nm == py_str(row[1])
    IN  SelectSeq(nm, LAMBDA ch : ch # " " /\ ch # "&")

\* a points cell as an integer, 0 for an empty cell
PointsValue(c) == IF Truthy(c) /\ py_int(c).ok THEN py_int(c).v ELSE PyInt(0)

PhaseEntry(row) ==
    [key |-> NormalName(row),
     val |-> [pointsLow  |-> PointsValue(row[2]),
              pointsHigh |-> PointsValue(row[3]),
              features   |-> PointsValue(row[4])]]

UniqueKeys(phases) ==
    \A i, j \in 1..Len(phases) : phases[i].key = phases[j].key => i = j

\* the rows C6 states: name and low-point value both non-null (an empty
\* text counted as a null name)
C6_StatedRows ==
    {i \in DOMAIN PointRange :
        Truthy(PointRange[i][1]) /\ PointRange[i][2] # None}

NamedPointRows ==
    {i \in DOMAIN PointRange :
        Truthy(PointRange[i][1]) /\ PointRange[i][2] # None}

\* among them, the first row of each normalized name
FirstOfName ==
    {i \in NamedPointRows :
        \A j \in NamedPointRows :
            NormalName(PointRange[j]) = NormalName(PointRange[i]) => j >= i}

\* the last row with the normalized name of row i
LastOfName(i) ==
    SetMax({j \in NamedPointRows :
                NormalName(PointRange[j]) = NormalName(PointRange[i])})

RECURSIVE FieldTotal(_, _, _)
FieldTotal(phases, field, upto) ==
    IF upto = 0 THEN 0
    ELSE phases[upto].val[field].v + FieldTotal(phases, field, upto - 1)

\* C7: in every returned document totals is empty exactly when phases is
\* empty, and otherwise holds the sums of pointsLow, pointsHigh and features
\* over the entries of phases of that document.
C7_TotalsAreSums ==
    Returned =>
        LET ph == rom_data.phases
            n  == Len(ph)
        IN  /\ (DOMAIN rom_data.totals = {}) <=> (n = 0)
            /\ n > 0 =>
                /\ DOMAIN rom_data.totals =
                       {"pointsLow", "pointsHigh", "totalFeatures"}
                /\ rom_data.totals.pointsLow =
                       PyInt(FieldTotal(ph, "pointsLow", n))
                /\ rom_data.totals.pointsHigh =
                       PyInt(FieldTotal(ph, "pointsHigh", n))
                /\ rom_data.totals.totalFeatures =
                       PyInt(FieldTotal(ph, "features", n))

\* C7's case: two phases whose three sums differ from one another
C7_Witness ==
    /\ Returned
    /\ Len(rom_data.phases) = 2
    /\ rom_data.totals.pointsLow = PyInt(15)
    /\ rom_data.totals.pointsHigh = PyInt(28)
    /\ rom_data.totals.totalFeatures = PyInt(5)

BothClosed == \A p \in Invocations : saver[p].pc = "closed"

\* C10 as stated: once both invocations have finished, the file holds
\* exactly the complete document of the invocation that wrote last, never
\* a mixture, under every interleaving.
C10_LastWriterWins ==
    BothClosed => disk = DocBytes(lastWriter)

\* C10 as amended: once both invocations have finished, every byte of the
\* file is the byte at that place of one of the two documents or of a hole;
\* the file is exactly the complete document of the invocation that wrote
\* last provided the other invocation wrote nothing after that invocation
\* opened (truncated) the file; when the other wrote in between, the file
\* can mix both documents.
C10_LastWriterWinsUnlessInterleaved ==
    BothClosed =>
        /\ \A i \in 1..Len(disk) : disk[i] \in {<<1, i>>, <<2, i>>, Hole}
        /\ saver[lastWriter].clean => disk = DocBytes(lastWriter)

\* C10's case: the invocation that wrote last opened the file while the
\* other had it open, and the other wrote nothing afterwards
C10_Witness ==
    /\ BothClosed
    /\ saver[lastWriter].clean
    /\ saver[lastWriter].raced
    /\ saver[lastWriter].len < saver[Other(lastWriter)].len
    /\ disk = DocBytes(lastWriter)

====
